---- MODULE Spec2Model ----
(***************************************************************************)
(* A model of the workspace synchronisation engine of reggie_build         *)
(* (src/src/reggie_build/workspace_sync.py): the sync() pipeline, its five *)
(* sync operations and the persistence pass, over a tree of manifest       *)
(* documents.                                                              *)
(*                                                                         *)
(* Text is modelled as a sequence of one-character strings, a filesystem   *)
(* path as a sequence of segments, and a manifest document as a tagged     *)
(* tree of mappings, sequences and scalars.                                *)
(***************************************************************************)
EXTENDS Integers, Sequences, FiniteSets, TLC

(***************************************************************************)
(* Text                                                                    *)
(***************************************************************************)

\* The characters the model uses, in code-point order (Python compares str
\* values code point by code point).
AsciiOrder ==
    << " ", "$", "*", "-", ".", "/", "0", "1", "2", ":", "=", ">", "@",
       "C", "E", "J", "O", "P", "R", "T", "[", "]", "_",
       "a", "b", "c", "d", "e", "f", "g", "h", "i", "k", "l", "n", "o",
       "p", "q", "r", "s", "t", "u", "v", "w", "x", "z", "{", "}" >>

Ord(c) == CHOOSE i \in 1..Len(AsciiOrder) : AsciiOrder[i] = c

\* s < t for two texts, as Python's str.__lt__.
RECURSIVE StrLess(_, _)
StrLess(s, t) ==
    IF t = <<>> THEN FALSE
    ELSE IF s = <<>> THEN TRUE
    ELSE IF Head(s) = Head(t) THEN StrLess(Tail(s), Tail(t))
    ELSE Ord(Head(s)) < Ord(Head(t))

EndsWith(s, c) == Len(s) > 0 /\ s[Len(s)] = c

HasPrefixAt(s, i, p) ==
    /\ i + Len(p) - 1 <= Len(s)
    /\ \A k \in 1..Len(p) : s[i + k - 1] = p[k]

\* The first index j >= i of s whose character is outside S (Len(s)+1 if none).
SkipSet(s, i, S) ==
    CHOOSE j \in i..(Len(s) + 1) :
        /\ \A k \in i..(j - 1) : s[k] \in S
        /\ (j = Len(s) + 1 \/ s[j] \notin S)

\* The character classes of the regular expression of _parse_dependency_name:
\* \s, and [\w\-\.\[\]].
Whitespace == {" "}
WordChars ==
    { "0", "1", "2", "C", "E", "J", "O", "P", "R", "T", "_",
      "a", "b", "c", "d", "e", "f", "g", "h", "i", "k", "l", "n", "o",
      "p", "q", "r", "s", "t", "u", "v", "w", "x", "z" }
NameChars == WordChars \cup {"-", ".", "[", "]"}

FileScheme == << "f", "i", "l", "e", ":", "/", "/" >>
ProjectRootToken ==
    << "$", "{", "P", "R", "O", "J", "E", "C", "T", "_", "R", "O", "O", "T", "}", "/" >>

\* The spelling of a path segment or project name.
SegChars ==
    [ ws       |-> << "w", "s" >>,
      ext      |-> << "e", "x", "t" >>,
      packages |-> << "p", "a", "c", "k", "a", "g", "e", "s" >>,
      tools    |-> << "t", "o", "o", "l", "s" >>,
      libs     |-> << "l", "i", "b", "s" >>,
      apps     |-> << "a", "p", "p", "s" >>,
      app1     |-> << "a", "p", "p", "1" >>,
      foo      |-> << "f", "o", "o" >>,
      bar      |-> << "b", "a", "r" >>,
      baz      |-> << "b", "a", "z" >>,
      solo     |-> << "s", "o", "l", "o" >>,
      root     |-> << "r", "o", "o", "t" >>,
      a        |-> << "a" >>,
      b        |-> << "b" >>,
      c        |-> << "c" >>,
      d        |-> << "d" >> ]

Segments == DOMAIN SegChars

CharsOf(seg) ==
    CASE seg = ".." -> << ".", "." >>
      [] seg = "."  -> << "." >>
      [] seg = "*"  -> << "*" >>
      [] OTHER      -> SegChars[seg]

\* "/".join(segments)
RECURSIVE JoinPath(_)
JoinPath(segs) ==
    IF segs = <<>> THEN <<>>
    ELSE IF Len(segs) = 1 THEN CharsOf(segs[1])
    ELSE CharsOf(segs[1]) \o << "/" >> \o JoinPath(Tail(segs))

(***************************************************************************)
(* Paths                                                                   *)
(***************************************************************************)

RootDir == << "ws" >>

Parent(p) == SubSeq(p, 1, Len(p) - 1)

IsRelativeTo(p, base) ==
    Len(p) >= Len(base) /\ SubSeq(p, 1, Len(base)) = base

RelativeTo(p, base) == SubSeq(p, Len(base) + 1, Len(p))

CommonPrefixLen(p, q) ==
    CHOOSE i \in 0..Len(p) :
        /\ i <= Len(q)
        /\ \A k \in 1..i : p[k] = q[k]
        /\ (i = Len(p) \/ i = Len(q) \/ p[i + 1] # q[i + 1])

\* os.path.relpath(target, start) of two absolute, normalised paths.
RelPath(target, start) ==
    LET i    == CommonPrefixLen(target, start)
        ups  == [k \in 1..(Len(start) - i) |-> ".."]
        rest == SubSeq(target, i + 1, Len(target))
    IN  IF ups \o rest = <<>> THEN << "." >> ELSE ups \o rest

(***************************************************************************)
(* Manifest documents                                                      *)
(***************************************************************************)

Nil      == [t |-> "nil"]
Map(f)   == [t |-> "map", m |-> f]
Val(s)   == [t |-> "val", v |-> s]
Bool(b)  == [t |-> "bool", b |-> b]
List(s)  == [t |-> "seq", s |-> s]
EmptyMap == Map(<<>>)

IsMap(x) == x.t = "map"
Keys(x)  == DOMAIN x.m
Has(x, k) == IsMap(x) /\ k \in DOMAIN x.m
Get(x, k, dflt) == IF Has(x, k) THEN x.m[k] ELSE dflt
Put(x, k, v) ==
    Map([kk \in Keys(x) \cup {k} |-> IF kk = k THEN v ELSE x.m[kk]])
Del(x, k) == Map([kk \in Keys(x) \ {k} |-> x.m[kk]])

\* Python truthiness of a document value.
Truthy(x) ==
    CASE x.t = "map"  -> Keys(x) # {}
      [] x.t = "seq"  -> Len(x.s) > 0
      [] x.t = "bool" -> x.b
      [] x.t = "val"  -> TRUE
      [] OTHER        -> FALSE

RECURSIVE GetIn(_, _)
GetIn(x, path) ==
    IF path = <<>> THEN x
    ELSE IF Has(x, Head(path)) THEN GetIn(x.m[Head(path)], Tail(path))
    ELSE Nil

RECURSIVE PutIn(_, _, _)
PutIn(x, path, v) ==
    IF path = <<>> THEN v
    ELSE LET base == IF IsMap(x) THEN x ELSE EmptyMap
         IN  Put(base, Head(path), PutIn(Get(base, Head(path), EmptyMap), Tail(path), v))

RECURSIVE DelIn(_, _)
DelIn(x, path) ==
    IF ~Has(x, Head(path)) THEN x
    ELSE IF Len(path) = 1 THEN Del(x, Head(path))
    ELSE Put(x, Head(path), DelIn(x.m[Head(path)], Tail(path)))

(***************************************************************************)
(* Manifest node and workspace tree (reggie_build.pyproject)               *)
(*                                                                         *)
(* A tree is a record [members, filtered]: members maps each member name   *)
(* to its directory.  The nodes' documents live in one store, data, keyed  *)
(* by project name, so that a filtered view shares its nodes with the full *)
(* tree.                                                                   *)
(***************************************************************************)

RootName == "root"

Tree(members, filtered) == [members |-> members, filtered |-> filtered]

\* PyProjectTree.filter_members(names): the members restricted to names (all
\* of them when names is empty), marked filtered.
FilterMembers(tree, names) ==
    LET keep == IF names = {} THEN DOMAIN tree.members
                ELSE DOMAIN tree.members \cap names
    IN  Tree([n \in keep |-> tree.members[n]], TRUE)

\* PyProjectTree.projects(): the root and the tree's members.
Projects(tree) == {RootName} \cup DOMAIN tree.members

DirOf(tree, name) == IF name = RootName THEN RootDir ELSE tree.members[name]

\* PyProject.table(*path, create): the sub-table at path, created with its
\* missing ancestors when create is set; no table otherwise.
HasTable(doc, path, create) == create \/ IsMap(GetIn(doc, path))
Table(doc, path, create) ==
    IF IsMap(GetIn(doc, path)) \/ ~create THEN doc ELSE PutIn(doc, path, EmptyMap)

\* Table node prune(): an empty table is removed from the document, and so is
\* each parent the removal leaves empty; a table holding keys stays.
RECURSIVE Prune(_, _)
Prune(doc, path) ==
    IF path = <<>> THEN doc
    ELSE LET tbl == GetIn(doc, path)
         IN  IF IsMap(tbl) /\ Keys(tbl) = {}
             THEN Prune(DelIn(doc, path), Parent(path))
             ELSE doc

(***************************************************************************)
(* Version sync                                                            *)
(***************************************************************************)

\* _version(): "0.0.1+g" and the short revision git reports.
Version(rev) == "0.0.1+g" \o rev

\* Variant: the version is set without looking for a project table.
SyncVersionProjectCreating(doc, version) ==
    PutIn(doc, <<"project", "version">>, Val(version))

SyncVersionProject(doc, version) ==
    LET project_data == Get(doc, "project", Nil)
    IN  IF project_data = Nil THEN doc
        ELSE IF Get(project_data, "version", Nil) = Val(version) THEN doc
        ELSE PutIn(doc, <<"project", "version">>, Val(version))

\* sync_version(projs, version)
SyncVersion(d, projs, version) ==
    [p \in DOMAIN d |-> IF p \in projs THEN SyncVersionProject(d[p], version) ELSE d[p]]

(***************************************************************************)
(* Build-system propagation                                                *)
(***************************************************************************)

\* Variant: the table is merged into the member's instead of replacing it.
SyncBuildSystemMerging(d, tree) ==
    LET bs == Get(d[RootName], "build-system", EmptyMap)
    IN  IF Truthy(bs)
        THEN [p \in DOMAIN d |->
                IF p \in DOMAIN tree.members
                THEN Put(d[p], "build-system",
                         Map([k \in Keys(Get(d[p], "build-system", EmptyMap)) \cup Keys(bs) |->
                                 IF k \in Keys(bs) THEN bs.m[k]
                                 ELSE Get(d[p], "build-system", EmptyMap).m[k]]))
                ELSE d[p]]
        ELSE d

\* Variant: every member of the workspace receives the table, selected or not.
SyncBuildSystemUnscoped(d, tree) ==
    LET bs == Get(d[RootName], "build-system", EmptyMap)
    IN  IF Truthy(bs)
        THEN [p \in DOMAIN d |-> IF p # RootName THEN Put(d[p], "build-system", bs) ELSE d[p]]
        ELSE d

\* sync_build_system(pyproject_tree)
SyncBuildSystem(d, tree) ==
    LET bs == Get(d[RootName], "build-system", EmptyMap)
    IN  IF Truthy(bs)
        THEN [p \in DOMAIN d |->
                IF p \in DOMAIN tree.members THEN Put(d[p], "build-system", bs) ELSE d[p]]
        ELSE d

(***************************************************************************)
(* Tool-settings merge                                                     *)
(***************************************************************************)

\* Variant: dict.update, the source's top-level values replace the member's.
ShallowMerge(dst, src) ==
    Map([k \in Keys(dst) \cup Keys(src) |-> IF k \in Keys(src) THEN src.m[k] ELSE dst.m[k]])

\* mergedeep.merge(destination, source), strategy REPLACE.
RECURSIVE DeepMerge(_, _)
DeepMerge(dst, src) ==
    Map([k \in Keys(dst) \cup Keys(src) |->
            IF k \notin Keys(src) THEN dst.m[k]
            ELSE IF k \in Keys(dst) /\ IsMap(dst.m[k]) /\ IsMap(src.m[k])
                 THEN DeepMerge(dst.m[k], src.m[k])
            ELSE src.m[k]])

\* sync_member_project_tool(pyproject_tree)
SyncMemberProjectTool(d, tree) ==
    LET member_project_data ==
            Get(Get(d[RootName], "tool", EmptyMap), "member-project", EmptyMap)
    IN  IF Truthy(member_project_data)
        THEN [p \in DOMAIN d |->
                IF p \in DOMAIN tree.members
                THEN DeepMerge(d[p], member_project_data) ELSE d[p]]
        ELSE d

(***************************************************************************)
(* Dependency-reference rewrite                                            *)
(***************************************************************************)

\* _parse_dependency_name(dep): re.match(r"^\s*([\w\-\.\[\]]+)\s*@\s*file://")
ParseDependencyName(dep) ==
    LET i1 == SkipSet(dep, 1, Whitespace)
        i2 == SkipSet(dep, i1, NameChars)
        i3 == SkipSet(dep, i2, Whitespace)
        i4 == SkipSet(dep, i3 + 1, Whitespace)
    IN  IF /\ i2 > i1
           /\ i3 <= Len(dep)
           /\ dep[i3] = "@"
           /\ HasPrefixAt(dep, i4, FileScheme)
        THEN SubSeq(dep, i1, i2 - 1)
        ELSE dep

\* Variant: the relative path is taken in the wrong direction.
MemberDependencyReversed(member_dir, dep, dep_dir) ==
    dep \o << " ", "@", " " >> \o FileScheme \o ProjectRootToken
        \o JoinPath(RelPath(member_dir, dep_dir))

\* _member_dependency(member_proj, dep, dep_proj)
MemberDependency(member_dir, dep, dep_dir) ==
    dep \o << " ", "@", " " >> \o FileScheme \o ProjectRootToken
        \o JoinPath(RelPath(dep_dir, member_dir))

\* The project a parsed dependency name resolves to: the root when it is the
\* root's name, else the member of that name, else "" (no project).
DepProject(tree, dep) ==
    IF dep = CharsOf(RootName) THEN RootName
    ELSE IF \E n \in DOMAIN tree.members : CharsOf(n) = dep
         THEN CHOOSE n \in DOMAIN tree.members : CharsOf(n) = dep
    ELSE ""

RewriteDependency(tree, proj_dir, dependency) ==
    LET dep      == ParseDependencyName(dependency)
        dep_proj == DepProject(tree, dep)
    IN  IF dep_proj # ""
        THEN MemberDependency(proj_dir, dep, DirOf(tree, dep_proj))
        ELSE dependency

\* The entry written for a managed internal dependency.
WorkspaceSource == Map([k \in {"workspace"} |-> Bool(TRUE)])

IsWorkspaceSource(entry) == Get(entry, "workspace", Nil) = Bool(TRUE)

\* Variant: stale managed entries are not removed.
SyncSourcesKeepingStale(source_table, member_dependencies) ==
    Map([k \in Keys(source_table) \cup member_dependencies |->
            IF k \in member_dependencies THEN WorkspaceSource ELSE source_table.m[k]])

\* The reconciliation of the source table with member_dependencies.
SyncSources(source_table, member_dependencies) ==
    LET kept == { k \in Keys(source_table) :
                    ~(IsWorkspaceSource(source_table.m[k]) /\ k \notin member_dependencies) }
    IN  Map([k \in kept \cup member_dependencies |->
                IF k \in member_dependencies THEN WorkspaceSource ELSE source_table.m[k]])

SourcesPath == << "tool", "uv", "sources" >>

\* _sync_member_project_dependencies(pyproject_tree, proj)
SyncProjectDependencies(tree, proj_dir, doc) ==
    LET deplist      == GetIn(doc, <<"project", "dependencies">>)
        dependencies == IF deplist.t = "seq" THEN deplist.s ELSE <<>>
        internal(i)  == DepProject(tree, ParseDependencyName(dependencies[i])) # ""
        member_dependencies ==
            { DepProject(tree, ParseDependencyName(dependencies[i])) :
                i \in { j \in 1..Len(dependencies) : internal(j) } }
        rewritten    == [i \in 1..Len(dependencies) |->
                            RewriteDependency(tree, proj_dir, dependencies[i])]
        doc1 == IF Len(dependencies) > 0
                THEN PutIn(doc, <<"project", "dependencies">>, List(rewritten))
                ELSE doc
        create == member_dependencies # {}
        doc2 == Table(doc1, SourcesPath, create)
    IN  IF HasTable(doc1, SourcesPath, create)
        THEN Prune(PutIn(doc2, SourcesPath,
                         SyncSources(GetIn(doc2, SourcesPath), member_dependencies)),
                   SourcesPath)
        ELSE doc1

\* Variant: the filtered flag is not checked.
SyncMemberProjectDependenciesUnchecked(d, unfiltered, tree) ==
    [err |-> "none",
     data |-> [p \in DOMAIN d |->
                 IF p \in Projects(tree)
                 THEN SyncProjectDependencies(unfiltered, DirOf(tree, p), d[p])
                 ELSE d[p]]]

\* sync_member_project_dependencies(unfiltered_pyproject_tree, pyproject_tree)
SyncMemberProjectDependencies(d, unfiltered, tree) ==
    IF unfiltered.filtered
    THEN [err |-> "ValueError", data |-> d]
    ELSE [err |-> "none",
          data |-> [p \in DOMAIN d |->
                      IF p \in Projects(tree)
                      THEN SyncProjectDependencies(unfiltered, DirOf(tree, p), d[p])
                 ELSE d[p]]]

(***************************************************************************)
(* Member-path derivation                                                  *)
(***************************************************************************)

LastSeg(p) == p[Len(p)]

\* by_parent[parent]
ChildrenOf(rels, parent) == { p \in rels : Parent(p) = parent }

\* Variant: the loop does not skip the group of the root's children.
CollapsibleToRoot(rels) ==
    { parent \in { Parent(p) : p \in rels } :
        LET children == ChildrenOf(rels, parent)
            names    == { LastSeg(c) : c \in children }
            expected == { parent \o << n >> : n \in names }
        IN  /\ children = expected
            /\ Cardinality(children) > 1 }

\* The parents the collapsing loop may collapse in the current set: any parent
\* other than the root whose group passes the test of the loop.
Collapsible(rels) ==
    { parent \in { Parent(p) : p \in rels } :
        LET children == ChildrenOf(rels, parent)
            names    == { LastSeg(c) : c \in children }
            expected == { parent \o << n >> : n \in names }
        IN  /\ parent # <<>>
            /\ children = expected
            /\ Cardinality(children) > 1 }

\* Variant: the parent is added and its children are left in the set.
CollapseStepKeeping(rels, parent) == rels \cup {parent}

CollapseStep(rels, parent) == (rels \ ChildrenOf(rels, parent)) \cup {parent}

\* The sets the loop of _sync_member_paths can end with.  by_parent is filled
\* in the iteration order of a set of paths, which Python leaves unspecified,
\* so the first collapsible parent met is any collapsible parent.
RECURSIVE CollapseResults(_)
CollapseResults(rels) ==
    IF Collapsible(rels) = {} THEN {rels}
    ELSE UNION { CollapseResults(CollapseStep(rels, parent)) : parent \in Collapsible(rels) }

\* The paths of _sync_member_paths(root, paths) after the root is dropped.
MemberDirs(tree) == { tree.members[n] : n \in DOMAIN tree.members } \ {RootDir}

PathsUnderRoot(dirs) == \A p \in dirs : IsRelativeTo(p, RootDir)

Rels(dirs) == { RelativeTo(p, RootDir) : p \in dirs }

\* The text of one surviving path: exact when a manifest lies at it.
MemberPattern(dir, manifests) ==
    IF (RootDir \o dir) \in manifests
    THEN JoinPath(dir)
    ELSE JoinPath(dir) \o << "/", "*" >>

\* key=lambda s: (not s.endswith("*"), s)
SortKeyLess(s, t) ==
    LET ks == ~EndsWith(s, "*")
        kt == ~EndsWith(t, "*")
    IN  (~ks /\ kt) \/ (ks = kt /\ StrLess(s, t))

\* members.sort(key=...)
RECURSIVE SortMembers(_)
SortMembers(S) ==
    IF S = {} THEN <<>>
    ELSE LET first == CHOOSE x \in S : \A y \in S \ {x} : SortKeyLess(x, y)
         IN  << first >> \o SortMembers(S \ {first})

WorkspacePath == << "tool", "uv", "workspace" >>
MembersPath   == << "tool", "uv", "workspace", "members" >>

\* The update of the root's tool.uv.workspace table with the list.
WriteMembers(doc, members) ==
    LET doc1 == Table(doc, WorkspacePath, TRUE)
    IN  IF Has(GetIn(doc1, WorkspacePath), "members")
        THEN IF Len(members) > 0
             THEN PutIn(doc1, MembersPath, List(members))
             ELSE DelIn(doc1, MembersPath)
        ELSE PutIn(doc1, MembersPath, List(members))

\* The ordered pattern list for one outcome of the collapsing loop.
MemberPatterns(rels, manifests) ==
    SortMembers({ MemberPattern(dir, manifests) : dir \in rels })

\* sync_member_paths(unfiltered_pyproject_tree): the outcomes it can have.
SyncMemberPaths(d, unfiltered, manifests) ==
    IF unfiltered.filtered \/ ~PathsUnderRoot(MemberDirs(unfiltered))
    THEN { [err |-> "ValueError", data |-> d] }
    ELSE { [err |-> "none",
            data |-> [d EXCEPT ![RootName] =
                        WriteMembers(d[RootName], MemberPatterns(rels, manifests))]] :
           rels \in CollapseResults(Rels(MemberDirs(unfiltered))) }

(***************************************************************************)
(* Discovery and persistence (reggie_build.pyproject)                      *)
(***************************************************************************)

\* text.split("/")
RECURSIVE SplitSlash(_)
SplitSlash(text) ==
    IF \A i \in 1..Len(text) : text[i] # "/" THEN << text >>
    ELSE LET i == CHOOSE j \in 1..Len(text) :
                      text[j] = "/" /\ \A k \in 1..(j - 1) : text[k] # "/"
         IN  << SubSeq(text, 1, i - 1) >> \o SplitSlash(SubSeq(text, i + 1, Len(text)))

SegOf(chars) == CHOOSE seg \in Segments \cup {"..", ".", "*"} : CharsOf(seg) = chars

\* Path.resolve() of a path that may hold ".." segments.
RECURSIVE Resolve(_)
Resolve(p) ==
    IF \A i \in 1..Len(p) : p[i] # ".." THEN p
    ELSE LET i == CHOOSE j \in 1..Len(p) :
                      p[j] = ".." /\ \A k \in 1..(j - 1) : p[k] # ".."
         IN  Resolve(SubSeq(p, 1, i - 2) \o SubSeq(p, i + 1, Len(p)))

PatternSegs(pattern) ==
    LET parts == SplitSlash(pattern) IN [i \in 1..Len(parts) |-> SegOf(parts[i])]

IsWildcard(pattern) == EndsWith(pattern, "*")

\* The directories one member-path pattern of the root denotes on a disk
\* whose manifests lie at the directories in manifests.
ExpandPattern(pattern, manifests) ==
    LET segs == PatternSegs(pattern)
    IN  IF IsWildcard(pattern)
        THEN { dir \in manifests : Parent(dir) = Resolve(RootDir \o Parent(segs)) }
        ELSE { Resolve(RootDir \o segs) }

ExpandPatterns(patterns, manifests) ==
    UNION { ExpandPattern(patterns[i], manifests) : i \in 1..Len(patterns) }

\* The member-path patterns a root document declares.
DeclaredPatterns(doc) ==
    LET lst == GetIn(doc, MembersPath) IN IF lst.t = "seq" THEN lst.s ELSE <<>>

\* A project's name; the manifests of the model declare the name of their
\* directory.
ProjectName(dir) == IF dir = RootDir THEN RootName ELSE LastSeg(dir)

\* pyproject.tree(): fails when an exact pattern names no manifest.
DiscoveryFails(files) ==
    ~(ExpandPatterns(DeclaredPatterns(files[RootDir].doc), DOMAIN files) \subseteq DOMAIN files)

LoadTree(files) ==
    LET dirs == ExpandPatterns(DeclaredPatterns(files[RootDir].doc), DOMAIN files)
                    \ {RootDir}
    IN  Tree([n \in { ProjectName(dir) : dir \in dirs } |->
                CHOOSE dir \in dirs : ProjectName(dir) = n], FALSE)

LoadData(files, tree) ==
    [p \in Projects(tree) |-> files[DirOf(tree, p)].doc]

\* PyProject.persist(force_format): the file text the node serialises to; the
\* formatter makes the layout canonical, the content stays.
Serialized(file, doc, force_format) ==
    [doc |-> doc, fmt |-> force_format \/ file.fmt]

(***************************************************************************)
(* State                                                                   *)
(***************************************************************************)

VARIABLES
    disk,       \* the manifests on disk: directory -> [doc, fmt]
    tree,       \* unfiltered_pyproject_tree
    view,       \* pyproject_tree, the filtered view of it
    data,       \* the nodes' documents in memory: project name -> document
    loaded,     \* history: data when the run loaded it / before the last call
    opts,       \* the options sync() was invoked with
    pc,         \* the position of sync()
    err,        \* the error that aborted the run or the last call ("none")
    written,    \* the projects whose manifest the persistence pass has written
    todo,       \* the projects the persistence pass has still to visit
    rels,       \* the path set of the collapsing loop of _sync_member_paths
    call        \* history: the last operation called directly

vars == << disk, tree, view, data, loaded, opts, pc, err, written, todo, rels, call >>

NoCall == [op |-> "none", ufiltered |-> FALSE, tfiltered |-> FALSE, version |-> ""]

(***************************************************************************)
(* Workspaces the runs start from                                          *)
(***************************************************************************)

File(doc, fmt) == [doc |-> doc, fmt |-> fmt]

Dir(segs) == RootDir \o segs

WithProject(doc, name, version) ==
    PutIn(PutIn(doc, <<"project", "name">>, Val(name)), <<"project", "version">>, Val(version))
WithDeps(doc, deps) == PutIn(doc, <<"project", "dependencies">>, List(deps))

\* Short revisions git may report.
Revs == {"r1", "r2"}

\* Dependency strings.
DepA      == << "a" >>
DepAFile  == << "a", " ", "@", " " >> \o FileScheme \o ProjectRootToken \o << ".", ".", "/", "a" >>
DepAOld   == << " ", "a", "@" >> \o FileScheme \o << "/", "o", "l", "d" >>
DepAVer   == << "a", ">", "=", "1" >>
DepRoot   == << "r", "o", "o", "t" >>
DepC      == << "c" >>
DepX      == << "x" >>
DepXFile  == << "x", " ", "@", " " >> \o FileScheme \o << "x" >>

\* Build-system tables.
BuildHatch ==
    Map([k \in {"requires", "build-backend"} |->
            IF k = "requires" THEN List(<< << "h" >> >>) ELSE Val("hatchling.build")])
BuildOld ==
    Map([k \in {"requires", "backend-path"} |->
            IF k = "requires" THEN List(<< << "s" >> >>) ELSE Val("src")])

\* tool.member-project tables of the root.
MemberProjectRuff ==
    PutIn(PutIn(EmptyMap, <<"tool", "ruff", "line-length">>, Val("100")),
          <<"project", "requires-python">>, Val(">=3.12"))

\* Source-table entries.
UserSource == Map([k \in {"path"} |-> Val("../vendored")])

PatternsAll      == << JoinPath(<<"packages", "*">>) >>
PatternsExact    == << JoinPath(<<"packages", "a">>), JoinPath(<<"packages", "b">>),
                       JoinPath(<<"tools", "c">>) >>
PatternsOutside  == << JoinPath(<<"packages", "*">>), JoinPath(<<"..", "ext">>) >>
PatternsMissing  == << JoinPath(<<"packages", "a">>), JoinPath(<<"tools", "d">>) >>

DocA ==
    PutIn(Put(WithProject(EmptyMap, "a", Version("r1")), "build-system", BuildOld),
          <<"tool", "ruff">>,
          Map([k \in {"line-length", "select"} |->
                  IF k = "select" THEN List(<< << "E" >> >>) ELSE Val("80")]))

DocB(deps, sources) ==
    LET doc == WithDeps(WithProject(EmptyMap, "b", "0.1.0"), deps)
    IN  IF sources = Nil THEN doc ELSE PutIn(doc, SourcesPath, sources)

\* A member without a project table.
DocC == PutIn(EmptyMap, <<"tool", "ruff", "line-length">>, Val("120"))

DocExt == WithProject(EmptyMap, "ext", "0.1.0")

DocRoot(patterns, build_system, member_project, deps) ==
    LET d0 == WithProject(EmptyMap, RootName, "0.1.0")
        d1 == IF deps = <<>> THEN d0 ELSE WithDeps(d0, deps)
        d2 == IF build_system = Nil THEN d1 ELSE Put(d1, "build-system", build_system)
        d3 == IF member_project = Nil THEN d2
              ELSE PutIn(d2, <<"tool", "member-project">>, member_project)
    IN  PutIn(d3, MembersPath, List(patterns))

ManifestDirs ==
    { RootDir, Dir(<<"packages", "a">>), Dir(<<"packages", "b">>), Dir(<<"tools", "c">>),
      << "ext" >> }

Workspace(rootdoc, doca, docb, fmt) ==
    [dir \in ManifestDirs |->
        File(CASE dir = RootDir -> rootdoc
               [] dir = Dir(<<"packages", "a">>) -> doca
               [] dir = Dir(<<"packages", "b">>) -> docb
               [] dir = Dir(<<"tools", "c">>) -> DocC
               [] OTHER -> DocExt,
             fmt)]

StaleSources == Map([k \in {"x", "a"} |-> IF k = "x" THEN WorkspaceSource ELSE UserSource])

SyncWorkspaces ==
    { Workspace(DocRoot(patterns, cfg[1], cfg[2], << DepA >>), DocA, DocB(bdeps, StaleSources), fmt) :
        patterns \in {PatternsAll, PatternsExact, PatternsOutside, PatternsMissing},
        cfg \in { << Nil, Nil >>, << BuildHatch, MemberProjectRuff >> },
        bdeps \in { << DepA, DepX >>, << DepC >> },
        fmt \in BOOLEAN }

NameSelections == { {}, {"a"}, {"b", "c"} }

Options ==
    [ names : NameSelections,
      version : BOOLEAN,
      build_system : BOOLEAN,
      member_project_tool : BOOLEAN,
      member_project_dependencies : BOOLEAN,
      member_paths : BOOLEAN,
      format_python : BOOLEAN,
      format_pyproject : BOOLEAN ]

(***************************************************************************)
(* sync(): one run of the pipeline                                         *)
(***************************************************************************)

Init ==
    /\ disk \in SyncWorkspaces
    /\ opts \in Options
    /\ tree = Tree(<<>>, FALSE)
    /\ view = Tree(<<>>, TRUE)
    /\ data = <<>>
    /\ loaded = <<>>
    /\ pc = "load"
    /\ err = "none"
    /\ written = {}
    /\ todo = {}
    /\ rels = {}
    /\ call = NoCall

\* Variant: the root's manifest is written on the way out of a failed run.
AbortFlushing(e) ==
    /\ pc' = "failed"
    /\ err' = e
    /\ IF RootName \in DOMAIN data /\ disk[RootDir].doc # data[RootName]
       THEN /\ disk' = [disk EXCEPT ![RootDir] = File(data[RootName], disk[RootDir].fmt)]
            /\ written' = written \cup {RootName}
       ELSE UNCHANGED << disk, written >>
    /\ UNCHANGED << tree, view, data, loaded, opts, todo, rels, call >>

\* An exception leaves sync(): the run ends, the nodes in memory are dropped.
Abort(e) ==
    /\ pc' = "failed"
    /\ err' = e
    /\ UNCHANGED << disk, tree, view, data, loaded, opts, written, todo, rels, call >>

Goto(next, d) ==
    /\ pc' = next
    /\ data' = d
    /\ UNCHANGED << disk, tree, view, loaded, opts, err, written, todo, rels, call >>

\* pyproject.tree() and filter_members(names)
Load ==
    /\ pc = "load"
    /\ IF DiscoveryFails(disk)
       THEN Abort("DiscoveryError")
       ELSE /\ tree' = LoadTree(disk)
            /\ view' = FilterMembers(LoadTree(disk), opts.names)
            /\ data' = LoadData(disk, LoadTree(disk))
            /\ loaded' = LoadData(disk, LoadTree(disk))
            /\ pc' = "version"
            /\ UNCHANGED << disk, opts, err, written, todo, rels, call >>

\* sync_version reaches _version() only for a project with a project table.
NeedsVersion == \E p \in Projects(view) : Get(data[p], "project", Nil) # Nil

VersionStep ==
    /\ pc = "version"
    /\ \/ /\ ~opts.version \/ ~NeedsVersion
          /\ Goto("build_system", data)
       \/ /\ opts.version /\ NeedsVersion
          /\ \E rev \in Revs : Goto("build_system", SyncVersion(data, Projects(view), Version(rev)))
       \/ /\ opts.version /\ NeedsVersion
          /\ Abort("CalledProcessError")

BuildSystemStep ==
    /\ pc = "build_system"
    /\ Goto("member_project_tool",
            IF opts.build_system THEN SyncBuildSystem(data, view) ELSE data)

MemberProjectToolStep ==
    /\ pc = "member_project_tool"
    /\ Goto("member_project_dependencies",
            IF opts.member_project_tool THEN SyncMemberProjectTool(data, view) ELSE data)

DependenciesStep ==
    /\ pc = "member_project_dependencies"
    /\ LET r == SyncMemberProjectDependencies(data, tree, view)
       IN  IF ~opts.member_project_dependencies THEN Goto("member_paths", data)
           ELSE IF r.err = "none" THEN Goto("member_paths", r.data)
           ELSE Abort(r.err)

MemberPathsStep ==
    /\ pc = "member_paths"
    /\ IF ~opts.member_paths THEN Goto("format_python", data)
       ELSE \E r \in SyncMemberPaths(data, tree, DOMAIN disk) :
               IF r.err = "none" THEN Goto("format_python", r.data) ELSE Abort(r.err)

\* ruff_format(pyproject_tree.projects()): check_output raises when ruff fails.
FormatPythonStep ==
    /\ pc = "format_python"
    /\ \/ /\ pc' = "persist"
          /\ todo' = Projects(view)
          /\ UNCHANGED << disk, tree, view, data, loaded, opts, err, written, rels, call >>
       \/ /\ opts.format_python
          /\ Abort("CalledProcessError")

\* The persistence pass visits the root first, then the view's members.
NextToPersist == IF RootName \in todo THEN {RootName} ELSE todo

PersistText(p) == Serialized(disk[DirOf(tree, p)], data[p], opts.format_pyproject)

PersistStep ==
    /\ pc = "persist"
    /\ \E p \in NextToPersist :
          \/ /\ disk' = [disk EXCEPT ![DirOf(tree, p)] = PersistText(p)]
             /\ written' = IF PersistText(p) # disk[DirOf(tree, p)]
                           THEN written \cup {p} ELSE written
             /\ todo' = todo \ {p}
             /\ pc' = IF todo \ {p} = {} THEN "done" ELSE "persist"
             /\ UNCHANGED << tree, view, data, loaded, opts, err, rels, call >>
          \/ /\ opts.format_pyproject
             /\ Abort("FormatterError")
          \/ /\ PersistText(p) # disk[DirOf(tree, p)]
             /\ Abort("OSError")

Next ==
    \/ Load
    \/ VersionStep
    \/ BuildSystemStep
    \/ MemberProjectToolStep
    \/ DependenciesStep
    \/ MemberPathsStep
    \/ FormatPythonStep
    \/ PersistStep

Spec == Init /\ [][Next]_vars

(***************************************************************************)
(* The sync operations called directly                                     *)
(***************************************************************************)

\* The longest dependency list of a project.
MaxDeps == 2

DepStrings == { DepA, DepAFile, DepAOld, DepAVer, DepRoot, DepX, DepXFile }

DepLists == UNION { [1..n -> DepStrings] : n \in 0..MaxDeps }

ManagedPlus ==
    Map([k \in {"workspace", "editable"} |-> Bool(TRUE)])

SourceTables ==
    { Nil,
      EmptyMap,
      Map([k \in {"a"} |-> WorkspaceSource]),
      Map([k \in {"a"} |-> UserSource]),
      StaleSources,
      Map([k \in {"x", "c"} |-> IF k = "x" THEN UserSource ELSE ManagedPlus]) }

RootBuilds   == { Nil, EmptyMap, BuildHatch, BuildOld }
MemberBuilds == { Nil, BuildHatch, BuildOld }

\* A scalar where the member holds a table, a sequence, and a table where the
\* member holds a scalar.
MemberProjectScalar == Map([k \in {"tool"} |-> Val("off")])
MemberProjectSeq ==
    PutIn(PutIn(EmptyMap, <<"tool", "ruff", "select">>, List(<< << "F" >> >>)),
          <<"tool", "uv", "package">>, Bool(TRUE))
MemberProjectTable ==
    PutIn(EmptyMap, <<"project", "version", "source">>, Val("vcs"))

MemberProjects ==
    { Nil, EmptyMap, MemberProjectRuff, MemberProjectScalar, MemberProjectSeq,
      MemberProjectTable }

DocAWith(build_system) ==
    IF build_system = Nil THEN DelIn(DocA, << "build-system" >>)
    ELSE Put(DocA, "build-system", build_system)

ApiWorkspaces ==
    { Workspace(DocRoot(PatternsExact, Nil, Nil, << DepA >>), DocA, DocB(deps, sources), TRUE) :
        deps \in DepLists, sources \in SourceTables }
    \cup
    { Workspace(DocRoot(PatternsExact, rb, Nil, <<>>), DocAWith(mb), DocB(<<>>, Nil), TRUE) :
        rb \in RootBuilds, mb \in MemberBuilds }
    \cup
    { Workspace(DocRoot(patterns, Nil, mp, <<>>), DocA, DocB(<< DepA >>, StaleSources), TRUE) :
        patterns \in {PatternsAll, PatternsExact, PatternsOutside}, mp \in MemberProjects }

ApiSelections == { {}, {"a"}, {"b"} }

ApiOptions(names) ==
    [ names |-> names, version |-> FALSE, build_system |-> FALSE,
      member_project_tool |-> FALSE, member_project_dependencies |-> FALSE,
      member_paths |-> FALSE, format_python |-> FALSE, format_pyproject |-> FALSE ]

InitApi ==
    /\ disk \in ApiWorkspaces
    /\ tree = LoadTree(disk)
    /\ \E names \in ApiSelections :
          /\ opts = ApiOptions(names)
          /\ view = FilterMembers(LoadTree(disk), names)
    /\ data = LoadData(disk, tree)
    /\ loaded = data
    /\ pc = "api"
    /\ err = "none"
    /\ written = {}
    /\ todo = {}
    /\ rels = {}
    /\ call = NoCall

\* The tree a caller hands over: the full tree or the filtered view.
TreeArg(isfiltered) == IF isfiltered THEN view ELSE tree

\* A caller calls one operation on the loaded tree, and may call it again
\* with the same arguments.
Called(op, uf, tf, version, r) ==
    /\ \/ pc = "api"
       \/ /\ pc = "returned"
          /\ call = [op |-> op, ufiltered |-> uf, tfiltered |-> tf, version |-> version]
    /\ pc' = "returned"
    /\ call' = [op |-> op, ufiltered |-> uf, tfiltered |-> tf, version |-> version]
    /\ loaded' = data
    /\ data' = r.data
    /\ err' = r.err
    /\ UNCHANGED << disk, tree, view, opts, written, todo, rels >>

Done(d) == [err |-> "none", data |-> d]

CallSyncVersion ==
    \E tf \in BOOLEAN, rev \in Revs :
        Called("sync_version", FALSE, tf, Version(rev),
               Done(SyncVersion(data, Projects(TreeArg(tf)), Version(rev))))

CallSyncBuildSystem ==
    \E tf \in BOOLEAN :
        Called("sync_build_system", FALSE, tf, "", Done(SyncBuildSystem(data, TreeArg(tf))))

CallSyncMemberProjectTool ==
    \E tf \in BOOLEAN :
        Called("sync_member_project_tool", FALSE, tf, "",
               Done(SyncMemberProjectTool(data, TreeArg(tf))))

CallSyncMemberProjectDependencies ==
    \E uf \in BOOLEAN, tf \in BOOLEAN :
        Called("sync_member_project_dependencies", uf, tf, "",
               SyncMemberProjectDependencies(data, TreeArg(uf), TreeArg(tf)))

CallSyncMemberPaths ==
    \E uf \in BOOLEAN :
        \E r \in SyncMemberPaths(data, TreeArg(uf), DOMAIN disk) :
            Called("sync_member_paths", uf, uf, "", r)

NextApi ==
    \/ CallSyncVersion
    \/ CallSyncBuildSystem
    \/ CallSyncMemberProjectTool
    \/ CallSyncMemberProjectDependencies
    \/ CallSyncMemberPaths

SpecApi == InitApi /\ [][NextApi]_vars

(***************************************************************************)
(* Member-path derivation, the collapsing loop step by step                *)
(***************************************************************************)

\* The most member directories of a workspace.
MaxMembers == 4

PathUniverse ==
    { Dir(<<"apps", "app1">>), Dir(<<"libs", "foo">>), Dir(<<"libs", "bar">>),
      Dir(<<"libs", "baz">>), Dir(<<"libs", "a">>), Dir(<<"libs", "b", "c">>),
      Dir(<<"libs", "b", "d">>), Dir(<<"libs">>), Dir(<<"solo">>) }

\* Directories that may hold a manifest the root does not declare.
StrayUniverse == { Dir(<<"libs">>), Dir(<<"libs", "b">>) }

MemberSets == { M \in SUBSET PathUniverse : Cardinality(M) <= MaxMembers }

\* The root documents of a workspace whose members are the directories M,
\* each declared by an exact pattern.
PathRoots(M) ==
    LET base == WithProject(EmptyMap, RootName, "0.1.0")
    IN  IF M = {}
        THEN { base, PutIn(base, WorkspacePath, EmptyMap), PutIn(base, MembersPath, List(<<>>)) }
        ELSE { PutIn(base, MembersPath,
                     List(SortMembers({ JoinPath(RelativeTo(dir, RootDir)) : dir \in M }))) }

PathWorkspace(M, stray, rootdoc) ==
    [dir \in M \cup stray \cup {RootDir} |->
        File(IF dir = RootDir THEN rootdoc
             ELSE WithProject(EmptyMap, ProjectName(dir), "0.1.0"), TRUE)]

InitPaths ==
    /\ \E M \in MemberSets, stray \in SUBSET StrayUniverse :
          /\ stray \cap M = {}
          /\ \E rootdoc \in PathRoots(M) : disk = PathWorkspace(M, stray, rootdoc)
    /\ tree = LoadTree(disk)
    /\ view = FilterMembers(tree, {})
    /\ opts = ApiOptions({})
    /\ data = LoadData(disk, tree)
    /\ loaded = data
    /\ pc = "paths"
    /\ err = "none"
    /\ written = {}
    /\ todo = {}
    /\ rels = {}
    /\ call = NoCall

\* sync_member_paths up to the loop of _sync_member_paths
PathsEnter ==
    /\ pc = "paths"
    /\ IF tree.filtered \/ ~PathsUnderRoot(MemberDirs(tree))
       THEN Abort("ValueError")
       ELSE /\ rels' = Rels(MemberDirs(tree))
            /\ pc' = "collapse"
            /\ UNCHANGED << disk, tree, view, data, loaded, opts, err, written, todo, call >>

\* One iteration of the while loop that collapses a group.
PathsCollapse ==
    /\ pc = "collapse"
    /\ \E parent \in Collapsible(rels) : rels' = CollapseStep(rels, parent)
    /\ UNCHANGED << disk, tree, view, data, loaded, opts, pc, err, written, todo, call >>

\* The iteration that changes nothing ends the loop; the patterns are written.
PathsWrite ==
    /\ pc = "collapse"
    /\ Collapsible(rels) = {}
    /\ data' = [data EXCEPT ![RootName] =
                   WriteMembers(data[RootName], MemberPatterns(rels, DOMAIN disk))]
    /\ pc' = "written"
    /\ UNCHANGED << disk, tree, view, loaded, opts, err, written, todo, rels, call >>

\* The caller calls sync_member_paths once more on the same tree; loaded keeps
\* the documents the first call left.
PathsAgain ==
    /\ pc = "written"
    /\ call = NoCall
    /\ call' = [NoCall EXCEPT !.op = "sync_member_paths"]
    /\ loaded' = data
    /\ pc' = "paths"
    /\ UNCHANGED << disk, tree, view, data, opts, err, written, todo, rels >>

NextPaths == PathsEnter \/ PathsCollapse \/ PathsWrite \/ PathsAgain

SpecPaths == InitPaths /\ [][NextPaths]_vars

(***************************************************************************)
(* _sync_member_paths(root, paths) on its own                              *)
(***************************************************************************)

\* The function is handed the directories of a tree's members; no document is
\* read or written by it.
InitLoop ==
    /\ \E M \in MemberSets :
          tree = LoadTree(PathWorkspace(M, {}, CHOOSE r \in PathRoots(M) : TRUE))
    /\ view = Tree(<<>>, TRUE)
    /\ disk = <<>>
    /\ opts = ApiOptions({})
    /\ data = <<>>
    /\ loaded = <<>>
    /\ pc = "paths"
    /\ err = "none"
    /\ written = {}
    /\ todo = {}
    /\ rels = {}
    /\ call = NoCall

\* The iteration that finds no group to collapse: changed stays False and the
\* function returns rels.
LoopReturn ==
    /\ pc = "collapse"
    /\ Collapsible(rels) = {}
    /\ pc' = "returned"
    /\ UNCHANGED << disk, tree, view, data, loaded, opts, err, written, todo, rels, call >>

NextLoop == PathsEnter \/ PathsCollapse \/ LoopReturn

\* The interpreter carries out the next statement of the running function.
SpecLoop == InitLoop /\ [][NextLoop]_vars /\ WF_vars(NextLoop)

(***************************************************************************)
(* sync() run twice: the second run loads what the first wrote             *)
(***************************************************************************)

\* Every operation enabled, every project selected, no formatter.
FullSync ==
    [ApiOptions({}) EXCEPT !.version = TRUE, !.build_system = TRUE,
                           !.member_project_tool = TRUE,
                           !.member_project_dependencies = TRUE,
                           !.member_paths = TRUE]

TwiceWorkspaces ==
    { Workspace(DocRoot(patterns, BuildHatch, MemberProjectRuff, << DepA >>),
                DocA, DocB(<< DepA, DepX >>, StaleSources), TRUE) :
        patterns \in {PatternsAll, PatternsExact} }
    \cup
    UNION { { PathWorkspace(M, stray, rootdoc) :
                stray \in { S \in SUBSET StrayUniverse : S \cap M = {} },
                rootdoc \in PathRoots(M) } :
            M \in MemberSets }

\* call.version is the revision git reports during both runs.
InitTwice ==
    /\ disk \in TwiceWorkspaces
    /\ opts = FullSync
    /\ tree = Tree(<<>>, FALSE)
    /\ view = Tree(<<>>, TRUE)
    /\ data = <<>>
    /\ loaded = <<>>
    /\ pc = "load"
    /\ err = "none"
    /\ written = {}
    /\ todo = {}
    /\ rels = {}
    /\ \E rev \in Revs : call = [NoCall EXCEPT !.op = "sync", !.version = Version(rev)]

\* sync_version(pyproject_tree.projects()) with git reporting call.version
VersionFixedStep ==
    /\ pc = "version"
    /\ Goto("build_system", SyncVersion(data, Projects(view), call.version))

\* sync() is started again on the files the first run left.
Rerun ==
    /\ pc = "done"
    /\ call.op = "sync"
    /\ call' = [call EXCEPT !.op = "sync_again"]
    /\ pc' = "load"
    /\ written' = {}
    /\ UNCHANGED << disk, tree, view, data, loaded, opts, err, todo, rels >>

NextTwice ==
    \/ Load
    \/ VersionFixedStep
    \/ BuildSystemStep
    \/ MemberProjectToolStep
    \/ DependenciesStep
    \/ MemberPathsStep
    \/ FormatPythonStep
    \/ PersistStep
    \/ Rerun

SpecTwice == InitTwice /\ [][NextTwice]_vars

(***************************************************************************)
(* Properties                                                              *)
(***************************************************************************)

Returned(op) == pc = "returned" /\ call.op = op

DepsOf(doc) ==
    LET lst == GetIn(doc, <<"project", "dependencies">>)
    IN  IF lst.t = "seq" THEN lst.s ELSE <<>>

SourcesOf(doc) ==
    LET tbl == GetIn(doc, SourcesPath) IN IF IsMap(tbl) THEN tbl ELSE EmptyMap

\* The names of the source-table entries that carry workspace = true.
ManagedEntries(doc) ==
    { k \in Keys(SourcesOf(doc)) : Get(SourcesOf(doc).m[k], "workspace", Nil) = Bool(TRUE) }

\* "N @ file://${PROJECT_ROOT}/<relative path from proj's directory to N's>"
InternalRef(proj, n) ==
    CharsOf(n) \o << " ", "@", " ", "f", "i", "l", "e", ":", "/", "/" >>
        \o << "$", "{", "P", "R", "O", "J", "E", "C", "T", "_", "R", "O", "O", "T", "}", "/" >>
        \o JoinPath(RelPath(DirOf(tree, n), DirOf(tree, proj)))

\* The names whose dependency string of doc is an internal file reference.
RewrittenNames(proj, doc) ==
    { n \in Projects(tree) :
        \E i \in 1..Len(DepsOf(doc)) : DepsOf(doc)[i] = InternalRef(proj, n) }

\* C1: a call of sync_member_project_dependencies or of sync_member_paths with
\* a tree whose filtered flag is set fails with an error and leaves every node
\* (the root and every member) as it was.
C1_FilteredTreeRejected ==
    (pc = "returned"
        /\ call.op \in {"sync_member_project_dependencies", "sync_member_paths"}
        /\ call.ufiltered)
    => (err = "ValueError" /\ data = loaded)

\* C1 witness: a rejected dependency rewrite that, handed the full tree, would
\* have rewritten a node.
C1_Witness ==
    /\ Returned("sync_member_project_dependencies")
    /\ call.ufiltered
    /\ err = "ValueError"
    /\ \E p \in Projects(view) : DepsOf(loaded[p]) # <<>> /\ RewrittenNames(p, loaded[p]) = {}
                                    /\ \E i \in 1..Len(DepsOf(loaded[p])) : DepsOf(loaded[p])[i] = << "a" >>

\* C3: the member-path list is ordered with every exact pattern before every
\* wildcard pattern, each group in lexicographic order; libs/foo, libs/bar,
\* libs/baz (no manifest at libs) and apps/app1 give ["apps/app1", "libs/*"].
C3_ExactBeforeWildcard ==
    pc = "written" =>
        LET ms == DeclaredPatterns(data[RootName])
        IN  /\ \A i, j \in 1..Len(ms) :
                  i < j => /\ ~(IsWildcard(ms[i]) /\ ~IsWildcard(ms[j]))
                           /\ (IsWildcard(ms[i]) = IsWildcard(ms[j]) => StrLess(ms[i], ms[j]))
            /\ (DOMAIN disk = { RootDir, Dir(<<"libs", "foo">>), Dir(<<"libs", "bar">>),
                               Dir(<<"libs", "baz">>), Dir(<<"apps", "app1">>) })
                  => ms = << << "a", "p", "p", "s", "/", "a", "p", "p", "1" >>,
                             << "l", "i", "b", "s", "/", "*" >> >>

\* C4: the written patterns, expanded against the manifests on disk (an exact
\* pattern is its directory, dir/* every immediate subdirectory of dir holding a
\* manifest), give back exactly the member directories.
C4_PatternsReproduceMembers ==
    pc = "written" =>
        ExpandPatterns(DeclaredPatterns(data[RootName]), DOMAIN disk) = MemberDirs(tree)

\* C5: after the dependency rewrite of a selected project, its source-table
\* entries marked workspace = true are exactly the names of its dependencies
\* that are internal file references.
C5_ManagedSourcesMatchRewritten ==
    (Returned("sync_member_project_dependencies") /\ err = "none")
    => \A p \in Projects(TreeArg(call.tfiltered)) :
          ManagedEntries(data[p]) = RewrittenNames(p, data[p])

\* C5 witness: a rewrite that removed a stale managed entry and added one for a
\* rewritten dependency.
C5_Witness ==
    /\ Returned("sync_member_project_dependencies")
    /\ err = "none"
    /\ \E p \in Projects(TreeArg(call.tfiltered)) :
          /\ ManagedEntries(loaded[p]) \ ManagedEntries(data[p]) # {}
          /\ ManagedEntries(data[p]) \ ManagedEntries(loaded[p]) # {}

\* C6: the dependency rewrite leaves every source-table entry that does not
\* carry workspace = true as it was, also when its name is that of a dependency
\* rewritten in the same pass.
C6_UnmarkedSourcesUntouched ==
    (Returned("sync_member_project_dependencies") /\ err = "none")
    => \A p \in DOMAIN data :
          \A k \in Keys(SourcesOf(loaded[p])) \ ManagedEntries(loaded[p]) :
              /\ k \in Keys(SourcesOf(data[p]))
              /\ SourcesOf(data[p]).m[k] = SourcesOf(loaded[p]).m[k]

\* The project a dependency string names: the text before "@ file://" when the
\* string is a file reference, the whole string otherwise.
NamedProject(dependency) ==
    { n \in Projects(tree) :
        \/ dependency = CharsOf(n)
        \/ \E lead \in 0..1, gap1 \in 0..1, gap2 \in 0..1 :
              LET prefix == [i \in 1..lead |-> " "] \o CharsOf(n) \o [i \in 1..gap1 |-> " "]
                                \o << "@" >> \o [i \in 1..gap2 |-> " "]
                                \o << "f", "i", "l", "e", ":", "/", "/" >>
              IN  Len(dependency) >= Len(prefix)
                    /\ SubSeq(dependency, 1, Len(prefix)) = prefix }

\* C7: the rewrite replaces each dependency string of a selected project that
\* names the root or a member of the full tree by the internal file reference
\* (for b at packages/b and a at packages/a: a @ file://${PROJECT_ROOT}/../a),
\* which names the same project, so that a second pass keeps it; every other
\* dependency string stays.
C7_InternalDependenciesRewritten ==
    (Returned("sync_member_project_dependencies") /\ err = "none")
    => \A p \in Projects(TreeArg(call.tfiltered)) :
          /\ Len(DepsOf(data[p])) = Len(DepsOf(loaded[p]))
          /\ \A i \in 1..Len(DepsOf(loaded[p])) :
                LET before == DepsOf(loaded[p])[i]
                    after  == DepsOf(data[p])[i]
                IN  /\ \A n \in NamedProject(before) :
                          /\ after = InternalRef(p, n)
                          /\ n \in NamedProject(after)
                          /\ RewriteDependency(tree, DirOf(tree, p), after) = after
                          /\ (p = "b" /\ n = "a") =>
                                after = << "a", " ", "@", " ", "f", "i", "l", "e", ":", "/", "/",
                                           "$", "{", "P", "R", "O", "J", "E", "C", "T", "_",
                                           "R", "O", "O", "T", "}", "/", ".", ".", "/", "a" >>
                    /\ NamedProject(before) = {} => after = before

\* C7 witness: project b, one dependency on a in an older file form rewritten
\* and one external dependency kept.
C7_Witness ==
    /\ Returned("sync_member_project_dependencies")
    /\ err = "none"
    /\ "b" \in Projects(TreeArg(call.tfiltered))
    /\ \E i, j \in 1..Len(DepsOf(loaded["b"])) :
          /\ DepsOf(loaded["b"])[i] = DepAOld
          /\ DepsOf(data["b"])[i] = DepAFile
          /\ DepsOf(loaded["b"])[j] = DepX
          /\ DepsOf(data["b"])[j] = DepX

\* C9: with a non-empty build-system table at the root, every selected member's
\* build-system table is the root's afterwards, keys the root lacks gone; with
\* none, or an empty one, nothing changes and the operation does not fail.
C9_BuildSystemReplaced ==
    Returned("sync_build_system")
    => /\ err = "none"
       /\ LET bs == Get(loaded[RootName], "build-system", Nil)
          IN  IF bs # Nil /\ Keys(bs) # {}
              THEN \A m \in DOMAIN TreeArg(call.tfiltered).members :
                      /\ Get(data[m], "build-system", Nil) = bs
                      /\ Keys(Get(data[m], "build-system", Nil)) \subseteq Keys(bs)
              ELSE data = loaded

\* C9 witness: a member whose table had a key of its own received the root's.
C9_Witness ==
    /\ Returned("sync_build_system")
    /\ Get(loaded[RootName], "build-system", Nil) = BuildHatch
    /\ Get(loaded["a"], "build-system", Nil) = BuildOld
    /\ Get(data["a"], "build-system", Nil) = BuildHatch

\* out is the merge of src into dst: mapping on both sides merged key by key,
\* any other source value in place of the destination's, keys of dst alone kept.
RECURSIVE MergedAs(_, _, _)
MergedAs(dst, src, out) ==
    /\ IsMap(out)
    /\ Keys(out) = Keys(dst) \cup Keys(src)
    /\ \A k \in Keys(out) :
          IF k \notin Keys(src) THEN out.m[k] = dst.m[k]
          ELSE IF k \in Keys(dst) /\ dst.m[k].t = "map" /\ src.m[k].t = "map"
               THEN MergedAs(dst.m[k], src.m[k], out.m[k])
          ELSE out.m[k] = src.m[k]

\* C10: the merge of the root's tool.member-project table into a selected
\* member merges mappings key by key, lets any other source value replace the
\* member's, and keeps the member's own keys; the root's document stays.
C10_MemberProjectMerged ==
    Returned("sync_member_project_tool")
    => /\ data[RootName] = loaded[RootName]
       /\ LET mp == GetIn(loaded[RootName], <<"tool", "member-project">>)
          IN  (mp # Nil /\ Keys(mp) # {})
                => \A m \in DOMAIN TreeArg(call.tfiltered).members :
                      MergedAs(loaded[m], mp, data[m])

\* C10 witness: the member's tool.ruff table kept its own key and took the
\* root's value for the shared one.
C10_Witness ==
    /\ Returned("sync_member_project_tool")
    /\ GetIn(loaded["a"], <<"tool", "ruff", "line-length">>) = Val("80")
    /\ GetIn(data["a"], <<"tool", "ruff", "line-length">>) = Val("100")
    /\ GetIn(data["a"], <<"tool", "ruff", "select">>) = GetIn(loaded["a"], <<"tool", "ruff", "select">>)
    /\ GetIn(data["a"], <<"project", "requires-python">>) = Val(">=3.12")

\* The errors that arise inside the persistence pass.
PersistErrors == {"FormatterError", "OSError"}

\* Every manifest the run changed is on disk.
ChangedAllWritten ==
    \A p \in Projects(view) : p \notin written => PersistText(p) = disk[DirOf(tree, p)]

\* C2 as stated: no manifest is written before the enabled operations are
\* done, a failing run has written none, and a run that has ended has written
\* every changed manifest or none.
C2_AllOrNothing ==
    /\ written # {} => pc \in {"persist", "done", "failed"}
    /\ pc = "failed" => written = {}
    /\ pc \in {"done", "failed"} => (written = {} \/ ChangedAllWritten)

\* C2, amended: no manifest is written before the enabled operations are done;
\* a run that fails in an operation has written none; a run that completes has
\* written every changed manifest; only a failure inside the persistence pass
\* leaves the manifests persisted before it written.
C2_WritesAfterOperations ==
    /\ written # {} => (pc \in {"persist", "done"} \/ (pc = "failed" /\ err \in PersistErrors))
    /\ (pc = "failed" /\ err \notin PersistErrors) => written = {}
    /\ \A p \in DOMAIN loaded : p \notin written => disk[DirOf(tree, p)].doc = loaded[p]
    /\ pc = "done" => \A p \in Projects(view) : disk[DirOf(tree, p)] = PersistText(p)

\* C2 witness: a run that failed after its operations had changed nodes in
\* memory, with nothing written.
C2_Witness ==
    /\ pc = "failed"
    /\ err = "CalledProcessError"
    /\ data # loaded
    /\ data[RootName] # loaded[RootName]
    /\ written = {}

\* C8: with a non-empty selection, the document of every member outside it
\* stays as loaded and its manifest is not written.
C8_UnselectedMembersUntouched ==
    opts.names # {}
    => \A m \in DOMAIN tree.members \ opts.names :
          /\ data[m] = loaded[m]
          /\ m \notin written
          /\ disk[tree.members[m]].doc = loaded[m]

\* C8 witness: a completed run over the selection {a} that changed and wrote
\* a, in a workspace whose member b has a dependency the rewrite would change.
C8_Witness ==
    /\ pc = "done"
    /\ opts.names = {"a"}
    /\ opts.build_system /\ opts.member_project_tool /\ opts.member_project_dependencies
    /\ "a" \in written
    /\ Get(data["a"], "build-system", Nil) = BuildHatch
    /\ "b" \in DOMAIN tree.members
    /\ \E i \in 1..Len(DepsOf(loaded["b"])) : DepsOf(loaded["b"])[i] = DepA

(***************************************************************************)
(* Version sync: what it sets and what it leaves                           *)
(***************************************************************************)

VersionOf(doc) == GetIn(doc, <<"project", "version">>)

\* C11: after sync_version with target version v, every selected project that
\* has a project table has version v and is otherwise as before, every
\* selected project without a project table is unchanged (no project table is
\* created), every project outside the selection is unchanged, and a project
\* whose manifest on disk already carries v is left as loaded, so that persist
\* finds its text equal to the file and reports no change.
C11_VersionSynced ==
    Returned("sync_version")
    => \A p \in DOMAIN data :
          IF p \notin Projects(TreeArg(call.tfiltered)) THEN data[p] = loaded[p]
          ELSE IF Get(loaded[p], "project", Nil) = Nil THEN data[p] = loaded[p]
          ELSE /\ VersionOf(data[p]) = Val(call.version)
               /\ DelIn(data[p], <<"project", "version">>)
                     = DelIn(loaded[p], <<"project", "version">>)
               /\ VersionOf(disk[DirOf(tree, p)].doc) = Val(call.version)
                     => /\ data[p] = loaded[p]
                        /\ Serialized(disk[DirOf(tree, p)], data[p], FALSE)
                              = disk[DirOf(tree, p)]

\* sync_version has returned for a selection holding a project whose version
\* already was the target, one whose version was changed, and one without a
\* project table.
C11_Witness ==
    /\ Returned("sync_version")
    /\ {"a", "b", "c"} \subseteq Projects(TreeArg(call.tfiltered))
    /\ VersionOf(disk[DirOf(tree, "a")].doc) = Val(call.version)
    /\ VersionOf(disk[DirOf(tree, "b")].doc) # Val(call.version)
    /\ VersionOf(data["b"]) = Val(call.version)
    /\ Get(data["c"], "project", Nil) = Nil

(***************************************************************************)
(* Member-path derivation: the root is never a pattern                     *)
(***************************************************************************)

\* The members whose parent is the root, relative to the root.
RootChildren == { p \in Rels(MemberDirs(tree)) : Len(p) = 1 }

\* C12: the path set of the collapsing loop never holds the root path; the
\* members directly under the root stay in it, one or several, and each is
\* written as its own pattern.
C12_NeverCollapsesToRoot ==
    /\ pc \in {"collapse", "written"}
          => /\ <<>> \notin rels
             /\ RootChildren \subseteq rels
    /\ pc = "written"
          => \A p \in RootChildren :
                \E i \in 1..Len(DeclaredPatterns(data[RootName])) :
                    DeclaredPatterns(data[RootName])[i] = JoinPath(p)

\* The loop has ended for a workspace with two members directly under the
\* root, after an iteration that collapsed a group below them.
C12_Witness ==
    /\ pc = "written"
    /\ Cardinality(RootChildren) = 2
    /\ rels # Rels(MemberDirs(tree))

(***************************************************************************)
(* Member-path derivation: a second call, the empty list, termination      *)
(***************************************************************************)

SecondCallWritten == pc = "written" /\ call.op = "sync_member_paths"

\* C13: a second call of member-path derivation on the same tree and the same
\* member directories gives the ordered pattern list of the first call and
\* leaves the root's recorded member-path list as the first call wrote it.
C13_SecondCallSame ==
    SecondCallWritten
    => /\ DeclaredPatterns(data[RootName]) = DeclaredPatterns(loaded[RootName])
       /\ GetIn(data[RootName], MembersPath) = GetIn(loaded[RootName], MembersPath)

\* C14: when the tree has no members, so that the pattern list is empty, the
\* root's document holds no member-path list after the call, whether or not it
\* had a members key or a tool.uv.workspace table before.
C14_EmptyListRemoved ==
    (pc = "written" /\ MemberDirs(tree) = {})
    => ~Has(GetIn(data[RootName], WorkspacePath), "members")

\* No parent other than the root has more than one of its children in the set.
NoGroup(S) ==
    \A parent \in { Parent(p) : p \in S } \ { <<>> } :
        Cardinality(ChildrenOf(S, parent)) <= 1

\* C15: the collapsing loop terminates: every iteration that collapses a
\* group leaves strictly fewer paths in the set, the loop goes on while some
\* parent other than the root has more than one child in the set and ends
\* with the next iteration once none has, and every started loop ends.
C15_CollapseTerminates ==
    /\ [][(pc = "collapse" /\ pc' = "collapse")
            => Cardinality(rels') < Cardinality(rels)]_vars
    /\ [][pc = "collapse" => (NoGroup(rels) <=> pc' = "returned")]_vars
    /\ [](pc = "returned" => NoGroup(rels))
    /\ (pc = "collapse" ~> pc = "returned")

\* The loop has ended after at least two collapsing iterations.
C15_Witness ==
    /\ pc = "returned"
    /\ NoGroup(rels)
    /\ Cardinality(rels) + 2 <= Cardinality(Rels(MemberDirs(tree)))

(***************************************************************************)
(* The full sync run twice                                                 *)
(***************************************************************************)

\* C16: when the full sync (version with the same target, build-system,
\* tool settings, dependency rewrite, member paths, persistence) is run a
\* second time on the manifests and member-path patterns the first run wrote,
\* the second run changes no node and its persistence pass writes no manifest.
C16_SecondRunChangesNothing ==
    (call.op = "sync_again" /\ pc \in {"persist", "done"})
    => /\ data = loaded
       /\ written = {}

====
